---------------------------- MODULE Spec2Model ----------------------------
(***************************************************************************)
(* A model of the hints image viewer: the background loader                *)
(* (thread_loader), the Hints application of the `common` crate and of the *)
(* older `hints` crate (hint list, current index, lazily created           *)
(* textures, input mapping), the plugin's window-state save/load/reset and *)
(* the plugin's lifecycle under its host.                                  *)
(*                                                                         *)
(* Threads are interleaved at the granularity of the mutex: a step is what *)
(* one thread does between two points where another thread can observe    *)
(* the shared list or the channel.                                         *)
(***************************************************************************)
EXTENDS Integers, Sequences, FiniteSets, Bags, TLC

\* ------------------------------------------------------------------ bounds

\* Files on disk are named 1..NumFiles; the order of the names is the order
\* of the paths.
NumFiles == 3
\* How many loader threads may be alive at once (thread slots).
MaxWorkers == 2
\* Texture handles the renderer can hand out.
MaxTex == 1
\* Longest `images` list of the hints crate's configuration file.
MaxConfig == 2
\* Places and sizes a window can have.
NumGeometries == 2

Files == 1..NumFiles
TexIds == 1..MaxTex

VARIABLES
    crate,        \* "common" | "hints": which Hints implementation runs;
                  \* "loader": a bare thread_loader driven by a client
    hints,        \* Arc<Mutex<Vec<Hint>>>: sequence of [file, tex]
    idx,          \* current_hint_idx (0-based, as in the code)
    uiPc,         \* where the UI thread is: "idle" | "next" | "prev";
                  \* "panic": it panicked; "dropped": it dropped the Hints
    inputs,       \* what the last load sent its loader, in order
    workers,      \* the loader threads that have not exited, a bag of records
    textures,     \* renderer-side textures currently allocated
    interleaved,  \* history: the last load began while a worker was alive
    event,        \* the Event the windowing layer passes to handle_event
    handled,      \* what the last handle_event call returned: <<>> or <<bool>>
    applied,      \* thread_loader alone: the inputs f was applied to, in order
    received,     \* thread_loader alone: what the client's Receiver yielded
    aircraft,     \* the aircraft the simulator has loaded: [icao, filename]
    win,          \* the hints window of the plugin: <<>> while there are no
                  \* Internals, else <<[mode, geometry, visible]>>
    stateFiles,   \* per aircraft id, <prefs>/hints/<id>.toml: <<>> or <<text>>
    saved,        \* history: per aircraft id, the window as it was when
                  \* save() last wrote the file
    restored,     \* history: load() placed the window and nothing has
                  \* moved it since
    defaultGeometry,  \* SystemWrapper::default_geometry (0: no wrapper)
    createdGeometry,  \* history: the geometry the window was created with
    aircraftLoaded,   \* HintPlugin::aircraft_loaded
    hadHintsDir       \* history: <<>> before the first Internals::new, then
                      \* <<b>>: at the last one the aircraft had a hints
                      \* directory (b) or had none

appVars == <<crate, hints, idx, uiPc, inputs, workers, textures,
             interleaved>>
evVars == <<event, handled>>
tlVars == <<applied, received>>
winVars == <<aircraft, win, stateFiles, saved, restored, defaultGeometry,
            createdGeometry>>
plVars == <<aircraftLoaded, hadHintsDir>>
vars == <<crate, hints, idx, uiPc, inputs, workers, textures,
          interleaved, event, handled, applied, received,
          aircraft, win, stateFiles, saved, restored, defaultGeometry,
          createdGeometry, aircraftLoaded, hadHintsDir>>

\* ------------------------------------------------------- sequence helpers

RECURSIVE SeqMin(_)
SeqMin(s) ==
    IF Len(s) = 1 THEN Head(s)
    ELSE LET m == SeqMin(Tail(s)) IN IF Head(s) <= m THEN Head(s) ELSE m

RECURSIVE RemoveFirst(_, _)
RemoveFirst(s, x) ==
    IF s = <<>> THEN <<>>
    ELSE IF Head(s) = x THEN Tail(s)
    ELSE <<Head(s)>> \o RemoveFirst(Tail(s), x)

\* files.sort(): ascending order of the paths.
RECURSIVE Sort(_)
Sort(s) ==
    IF s = <<>> THEN <<>>
    ELSE LET m == SeqMin(s) IN <<m>> \o Sort(RemoveFirst(s, m))

\* read_dir promises no order. The paths are sorted before they are used,
\* so two orders stand for all: ascending and descending.
RECURSIVE Descending(_)
Descending(d) ==
    IF d = {} THEN <<>>
    ELSE LET m == CHOOSE x \in d : \A y \in d : y <= x
         IN <<m>> \o Descending(d \ {m})
Reverse(s) == [i \in 1..Len(s) |-> s[Len(s) + 1 - i]]
Listings(d) == {Descending(d), Reverse(Descending(d))}

IsPrefix(s, t) == Len(s) <= Len(t) /\ \A i \in 1..Len(s) : s[i] = t[i]

FilesOf(hs) == [i \in 1..Len(hs) |-> hs[i].file]

\* ------------------------------------------------------------------ Hint

\* image::open(path): the even-numbered files are not images.
ImageOpen(f) == f % 2 = 1

\* Hint::new that takes every file for an image.
HintNewAnyFile(f) == [ok |-> TRUE, hint |-> [file |-> f, tex |-> 0]]

\* Hint::new: Ok(hint) with no texture, or Err.
HintNew(f) == [ok |-> ImageOpen(f), hint |-> [file |-> f, tex |-> 0]]

\* Hint::texture_id that does not look at the stored handle.
TextureIdUncached(h, res) ==
    [hint |-> [h EXCEPT !.tex = res], ret |-> res,
     alloc |-> IF res # 0 THEN {res} ELSE {}]

\* Hint::texture_id; res is what create_texture would return (0 = Err).
TextureId(h, res) ==
    IF h.tex # 0
    THEN [hint |-> h, ret |-> h.tex, alloc |-> {}]
    ELSE [hint |-> [h EXCEPT !.tex = res], ret |-> res,
          alloc |-> IF res # 0 THEN {res} ELSE {}]

\* Hint::deallocate_texture that leaves the handle where it is.
DeallocateTextureKeeps(h) == [hint |-> h, freed |-> {}]

\* Hint::deallocate_texture.
DeallocateTexture(h) ==
    [hint |-> [h EXCEPT !.tex = 0],
     freed |-> IF h.tex # 0 THEN {h.tex} ELSE {}]

\* Dropping every hint of a list (Vec::clear): each Drop deallocates.
TexturesOf(hs) == {hs[i].tex : i \in 1..Len(hs)} \ {0}

\* --------------------------------------------------------- thread_loader

\* thread_loader(send_output, f): the thread is spawned blocked in recv();
\* the caller holds one Sender and the Receiver.
ThreadLoader(sendOutput) ==
    [inq |-> <<>>, tx |-> 1, sendOut |-> sendOutput, rx |-> TRUE,
     outq |-> <<>>, done |-> FALSE]

\* Sender::send: Ok while the worker holds rx_in.
ChannelSend(w, i) == [w EXCEPT !.inq = Append(@, i)]

\* A loop on try_recv(): an empty queue ends it although a Sender lives.
CanRecvEmpty(w) == ~w.done

\* rx_in.recv() returns: a queued input, or Err once the queue is empty and
\* every Sender is dropped. Otherwise the thread stays blocked.
CanRecv(w) == ~w.done /\ (w.inq # <<>> \/ w.tx = 0)

\* What recv() returns when it returns: Ok(input) or Err.
Recv(w) ==
    IF w.inq # <<>> THEN [ok |-> TRUE, input |-> Head(w.inq)]
    ELSE [ok |-> FALSE, input |-> 0]

\* A loop body that sends the output whatever send_output says.
LoopBodySendsAlways(w, o) ==
    [w EXCEPT !.inq = Tail(@), !.outq = IF w.rx THEN Append(@, o) ELSE @]

\* One turn of `while let Ok(input) = rx_in.recv()` in which f(input)
\* returned o: the input is consumed and o is sent when send_output is set
\* (a failed send is logged).
LoopBody(w, o) ==
    [w EXCEPT !.inq = Tail(@),
              !.outq = IF w.sendOut /\ w.rx THEN Append(@, o) ELSE @]

\* The thread of the bag ws that was w has run one turn of its loop and is
\* now w2.
Step(ws, w, w2) == (ws (-) SetToBag({w})) (+) SetToBag({w2})

\* recv() returned Err: the loop ends and the thread exits, dropping rx_in
\* and tx_out. Nothing is left of it unless the caller still holds the
\* Receiver, which then yields what is queued.
Exit(ws, w) ==
    IF w.rx THEN Step(ws, w, [w EXCEPT !.done = TRUE])
    ELSE ws (-) SetToBag({w})

\* ------------------------------------------------------------ Hints (app)

\* A closure that inserts the hint at the front of the list.
PushHintFront(hs, f) == IF HintNew(f).ok THEN <<HintNew(f).hint>> \o hs ELSE hs

\* The closure handed to thread_loader: decode, then push under the lock.
PushHint(hs, f) == IF HintNew(f).ok THEN Append(hs, HintNew(f).hint) ELSE hs

\* What a load hands its loader: the channel after every send and drop(tx).
RECURSIVE SendAll(_, _)
SendAll(w, files) ==
    IF files = <<>> THEN [w EXCEPT !.tx = 0]
    ELSE SendAll(ChannelSend(w, Head(files)), Tail(files))

\* `let (tx, _) = thread_loader(false, ...)`: the Receiver is dropped at once.
SpawnLoader(files) == SendAll([ThreadLoader(FALSE) EXCEPT !.rx = FALSE], files)

\* Hints::reload that leaves current_hint_idx as it is.
ReloadKeepsIdx(listing) ==
    /\ crate = "common"
    /\ uiPc = "idle"
    /\ BagCardinality(workers) < MaxWorkers
    /\ idx' = idx
    /\ hints' = <<>>
    /\ textures' = textures \ TexturesOf(hints)
    /\ interleaved' = (workers # EmptyBag)
    /\ inputs' = Sort(listing)
    /\ workers' = workers (+) SetToBag({SpawnLoader(Sort(listing))})
    /\ UNCHANGED <<crate, uiPc>>

\* Hints::reload: reset the index, clear the list (dropping the hints),
\* spawn the loader, list and sort the directory, send every path, drop tx.
\* The sends are seen by the new loader alone, so the whole call is one step.
Reload(listing) ==
    /\ crate = "common"
    /\ uiPc = "idle"
    /\ BagCardinality(workers) < MaxWorkers
    /\ idx' = 0
    /\ hints' = <<>>
    /\ textures' = textures \ TexturesOf(hints)
    /\ interleaved' = (workers # EmptyBag)
    /\ inputs' = Sort(listing)
    /\ workers' = workers (+) SetToBag({SpawnLoader(Sort(listing))})
    /\ UNCHANGED <<crate, uiPc>>

\* Hints::reload when read_dir, or an entry of it, fails: the index is
\* reset, the list cleared and the loader spawned before the unwrap()
\* panics; unwinding drops tx.
ReloadFails ==
    /\ crate = "common"
    /\ uiPc = "idle"
    /\ BagCardinality(workers) < MaxWorkers
    /\ idx' = 0
    /\ hints' = <<>>
    /\ textures' = textures \ TexturesOf(hints)
    /\ interleaved' = (workers # EmptyBag)
    /\ inputs' = <<>>
    /\ workers' = workers (+) SetToBag({SpawnLoader(<<>>)})
    /\ uiPc' = "panic"
    /\ UNCHANGED crate

\* Dropping the Vec<Hint>: impl Drop for Hint deallocates each texture.
DropList(hs) == [i \in 1..Len(hs) |-> DeallocateTexture(hs[i]).hint]

\* The Hints instance is dropped (the plugin releases its Internals). The
\* list goes with it unless a loader's closure still holds the Arc.
DropHints ==
    /\ crate = "common"
    /\ uiPc = "idle"
    /\ uiPc' = "dropped"
    /\ IF workers = EmptyBag
       THEN /\ hints' = DropList(hints)
            /\ textures' = textures \ TexturesOf(hints)
       ELSE UNCHANGED <<hints, textures>>
    /\ UNCHANGED <<crate, idx, inputs, workers, interleaved>>

\* A loader thread of the app returns from recv() and runs the closure on
\* the input, or exits. Between recv() and the lock the thread touches
\* nothing another thread can see, so one turn of the loop is one step.
\* The thread that exits drops its closure, and with the last Arc the list.
WorkerTurn(w) ==
    /\ crate \in {"common", "hints"}
    /\ CanRecv(w)
    /\ IF Recv(w).ok
       THEN /\ hints' = PushHint(hints, Recv(w).input)
            /\ workers' = Step(workers, w, LoopBody(w, 0))
            /\ textures' = textures
       ELSE /\ workers' = Exit(workers, w)
            /\ IF uiPc = "dropped" /\ Exit(workers, w) = EmptyBag
               THEN /\ hints' = DropList(hints)
                    /\ textures' = textures \ TexturesOf(hints)
               ELSE UNCHANGED <<hints, textures>>
    /\ UNCHANGED <<crate, idx, uiPc, inputs, interleaved>>

\* An index that stops at the last hint.
NextIdxNoWrap(i, n) == IF i + 1 < n THEN i + 1 ELSE i

\* (idx + 1) % len and (idx + len - 1) % len
NextIdx(i, n) == (i + 1) % n
PrevIdx(i, n) == (i + n - 1) % n

\* deallocate_current_texture under the lock, then the list with the
\* current hint's texture released.
DeallocCurrent ==
    IF idx + 1 <= Len(hints)
    THEN LET r == DeallocateTexture(hints[idx + 1])
         IN [hs |-> [hints EXCEPT ![idx + 1] = r.hint], freed |-> r.freed]
    ELSE [hs |-> hints, freed |-> {}]

\* have_hints() that answers true whatever the list holds.
HaveHintsAlways(ev) ==
    /\ crate = "common"
    /\ uiPc = "idle"
    /\ ev \in {"next", "prev"}
    /\ uiPc' = ev
    /\ UNCHANGED <<crate, hints, idx, inputs, workers, textures, interleaved>>

\* common: have_hints() locks, looks and unlocks.
HaveHints(ev) ==
    /\ crate = "common"
    /\ uiPc = "idle"
    /\ ev \in {"next", "prev"}
    /\ uiPc' = IF hints = <<>> THEN "idle" ELSE ev
    /\ UNCHANGED <<crate, hints, idx, inputs, workers, textures, interleaved>>

\* common: the body of the NextHint arm, under the second lock.
NextHint ==
    /\ crate = "common"
    /\ uiPc = "next"
    /\ hints' = DeallocCurrent.hs
    /\ textures' = textures \ DeallocCurrent.freed
    /\ idx' = NextIdx(idx, Len(hints))
    /\ uiPc' = "idle"
    /\ UNCHANGED <<crate, inputs, workers, interleaved>>

\* common: the body of the PreviousHint arm, under the second lock.
PreviousHint ==
    /\ crate = "common"
    /\ uiPc = "prev"
    /\ hints' = DeallocCurrent.hs
    /\ textures' = textures \ DeallocCurrent.freed
    /\ idx' = PrevIdx(idx, Len(hints))
    /\ uiPc' = "idle"
    /\ UNCHANGED <<crate, inputs, workers, interleaved>>

\* hints crate: handle_hints_event holds the lock from the emptiness test
\* to the index update.
HintsCrateEvent(ev) ==
    /\ crate = "hints"
    /\ uiPc = "idle"
    /\ ev \in {"next", "prev"}
    /\ IF hints = <<>>
       THEN UNCHANGED <<hints, textures, idx>>
       ELSE /\ hints' = DeallocCurrent.hs
            /\ textures' = textures \ DeallocCurrent.freed
            /\ idx' = IF ev = "next" THEN NextIdx(idx, Len(hints))
                                      ELSE PrevIdx(idx, Len(hints))
    /\ UNCHANGED <<crate, uiPc, inputs, workers, interleaved>>

\* handle_hints_event(event), first step.
HandleHintsEvent(ev) ==
    \/ HaveHints(ev)
    \/ HintsCrateEvent(ev)
    \/ /\ ev = "reload"
       /\ \/ \E d \in SUBSET Files : \E l \in Listings(d) : Reload(l)
          \/ ReloadFails

\* draw_ui: the texture of the hint at the current index, created on demand.
DrawUi ==
    /\ crate \in {"common", "hints"}
    /\ uiPc = "idle"
    /\ IF idx + 1 <= Len(hints)
       THEN \E res \in {0} \cup (TexIds \ textures) :
              LET r == TextureId(hints[idx + 1], res)
              IN /\ hints' = [hints EXCEPT ![idx + 1] = r.hint]
                 /\ textures' = textures \cup r.alloc
       ELSE UNCHANGED <<hints, textures>>
    /\ UNCHANGED <<crate, idx, uiPc, inputs, workers, interleaved>>

\* ---------------------------------------------------------- input mapping

Scrolls == {-1, 0, 1}
Keys == {"UpArrow", "DownArrow", "R", "Escape"}
Actions == {"Press", "Release", "Repeat"}

\* imgui_support's Event, as far as HintsEvent::from looks at it: a scroll
\* by (x, y), a key event with or without a known key, anything else.
NoEvent == [type |-> "none", y |-> 0, key |-> "none", action |-> "none"]
Events ==
    {[type |-> "Scroll", y |-> y, key |-> "none", action |-> "none"] : y \in Scrolls}
    \cup {[type |-> "Key", y |-> 0, key |-> k, action |-> a] :
            k \in Keys \cup {"none"}, a \in Actions}
    \cup {[type |-> "CursorPos", y |-> 0, key |-> "none", action |-> "none"]}

\* HintsEvent::from that does not look at the key's action.
HintsEventFromAnyAction(c, e) ==
    IF e.type = "Scroll"
    THEN IF e.y < 0 THEN "prev" ELSE IF e.y = 0 THEN "none" ELSE "next"
    ELSE IF e.type = "Key" /\ e.key # "none"
    THEN IF e.key = "UpArrow" THEN "prev"
         ELSE IF e.key = "DownArrow" THEN "next"
         ELSE IF e.key = "R" /\ c = "common" THEN "reload"
         ELSE "none"
    ELSE "none"

\* HintsEvent::from of the crate c: "next", "prev", "reload" or "none".
HintsEventFrom(c, e) ==
    IF e.type = "Scroll"
    THEN IF e.y < 0 THEN "prev" ELSE IF e.y = 0 THEN "none" ELSE "next"
    ELSE IF e.type = "Key" /\ e.key # "none"
    THEN IF e.action = "Press"
         THEN IF e.key = "UpArrow" THEN "prev"
              ELSE IF e.key = "DownArrow" THEN "next"
              ELSE IF e.key = "R" /\ c = "common" THEN "reload"
              ELSE "none"
         ELSE "none"
    ELSE "none"

\* App::handle_event: the mapped event is handled (its first step is taken
\* here, NextHint or PreviousHint completes it) and true is returned; a
\* handler that panics returns nothing.
HandleEvent ==
    /\ uiPc = "idle"
    /\ LET he == HintsEventFrom(crate, event)
       IN IF he # "none"
          THEN /\ HandleHintsEvent(he)
               /\ handled' = IF uiPc' = "panic" THEN handled ELSE <<TRUE>>
          ELSE UNCHANGED appVars /\ handled' = <<FALSE>>
    /\ UNCHANGED event

\* ------------------------------------------------- window state (plugin)

Geometries == 1..NumGeometries

\* Aircraft the simulator can load: the ICAO code of the .acf file ("" when
\* it has none) and the file's name, split at its dots.
Aircraft ==
    {[icao |-> "B738", filename |-> <<"b738_4k", "acf">>],
     [icao |-> "", filename |-> <<"Cessna_172SP", "acf">>]}

\* get_current_aircraft_icao: None for an empty code.
GetCurrentAircraftIcao(ac) == [some |-> ac.icao # "", icao |-> ac.icao]

\* PathBuf::set_extension(""): the name without its last extension.
SetExtensionEmpty(name) ==
    IF Len(name) > 1 THEN SubSeq(name, 1, Len(name) - 1) ELSE name

\* get_current_aircraft_id that names the state after the file alone.
AircraftIdFromFile(ac) == SetExtensionEmpty(ac.filename)

\* get_current_aircraft_id: the name of the state file, without ".toml".
AircraftId(ac) ==
    IF GetCurrentAircraftIcao(ac).some THEN <<GetCurrentAircraftIcao(ac).icao>>
    ELSE SetExtensionEmpty(ac.filename)

\* The names get_state_path can give a state file.
StateIds ==
    {<<ac.icao>> : ac \in Aircraft} \cup {SetExtensionEmpty(ac.filename) : ac \in Aircraft}

\* The positioning modes of a window, and those a State can record.
\* CenterOnMonitor stands for every mode the wildcard arm of Mode::from
\* takes.
PositioningModes == {"Free", "CenterOnMonitor", "PopOut", "VR"}
Modes == {"Free", "PopOut", "VR"}

\* Mode::from that records VR as Free.
ModeFromNoVR(pm) == IF pm = "PopOut" THEN "PopOut" ELSE "Free"

\* impl From<&PositioningMode> for Mode
ModeFrom(pm) ==
    IF pm = "PopOut" THEN "PopOut" ELSE IF pm = "VR" THEN "VR" ELSE "Free"

\* impl From<&Mode> for PositioningMode
PositioningModeFrom(m) ==
    IF m = "PopOut" THEN "PopOut" ELSE IF m = "VR" THEN "VR" ELSE "Free"

\* impl From<&Ref> for State
StateFrom(w) ==
    [mode |-> ModeFrom(w.mode), position |-> w.geometry, visible |-> w.visible]

\* What a write that failed after File::create leaves: nothing a State
\* parses from.
Unparsable == [mode |-> "", position |-> 0, visible |-> FALSE]

\* toml::from_str::<State> of a file's text
FromToml(text) == [ok |-> text.mode \in Modes, state |-> text]

\* The three setters load() calls on the window.
ApplyState(st) ==
    [mode |-> PositioningModeFrom(st.mode), geometry |-> st.position,
     visible |-> st.visible]

\* The window imgui_support_xplane::init returns to init_xplane: the place
\* follows from the screen bounds, g.
InitXplane(g, v) == [mode |-> "Free", geometry |-> g, visible |-> v]

\* Whether load() reaches its setters: the file is there, is read (rd) and
\* parses.
Loads(a, rd) ==
    IF stateFiles[AircraftId(a)] = <<>> THEN FALSE ELSE rd /\ FromToml(stateFiles[AircraftId(a)][1]).ok

\* SystemWrapper::save; wr is what the file system does: "ok", "fail" (no
\* save directory, or the file could not be created) or "cut" (the file
\* was created and the write failed).
Save(wr) ==
    /\ win # <<>>
    /\ stateFiles' = IF wr = "ok"
                THEN [stateFiles EXCEPT ![AircraftId(aircraft)] = <<StateFrom(win[1])>>]
                ELSE IF wr = "cut"
                THEN [stateFiles EXCEPT ![AircraftId(aircraft)] = <<Unparsable>>]
                ELSE stateFiles
    /\ saved' = IF wr = "ok" THEN [saved EXCEPT ![AircraftId(aircraft)] = win] ELSE saved
    /\ UNCHANGED <<aircraft, win, restored, defaultGeometry, createdGeometry>>

\* SystemWrapper::load; rd is whether read_to_string succeeds.
Load(rd) ==
    /\ win # <<>>
    /\ IF Loads(aircraft, rd)
       THEN /\ win' = <<ApplyState(FromToml(stateFiles[AircraftId(aircraft)][1]).state)>>
            /\ restored' = TRUE
       ELSE UNCHANGED <<win, restored>>
    /\ UNCHANGED <<aircraft, stateFiles, saved, defaultGeometry, createdGeometry>>

\* A default_geometry read from the window after load(true) has placed it.
DefaultGeometryAfterLoad(w0, w1) == w1.geometry

\* `let default_geometry = system.window().geometry()`, first statement of
\* SystemWrapper::new: w0 is the window as created, w1 as load(true) left it.
DefaultGeometryOf(w0, w1) == w0.geometry

\* SystemWrapper::new of a session for aircraft a: default_geometry is the
\* geometry of the new window, then load(true).
SystemWrapperNew(a, g, v, rd) ==
    /\ aircraft' = a
    /\ win' = IF Loads(a, rd)
              THEN <<ApplyState(FromToml(stateFiles[AircraftId(a)][1]).state)>>
              ELSE <<InitXplane(g, v)>>
    /\ restored' = Loads(a, rd)
    /\ defaultGeometry' = DefaultGeometryOf(InitXplane(g, v), win'[1])
    /\ createdGeometry' = g
    /\ UNCHANGED <<stateFiles, saved>>

\* SystemWrapper::reset
Reset ==
    /\ win # <<>>
    /\ win' = <<[mode |-> "Free", geometry |-> defaultGeometry,
                 visible |-> TRUE]>>
    /\ restored' = FALSE
    /\ UNCHANGED <<aircraft, stateFiles, saved, defaultGeometry, createdGeometry>>

\* SystemWrapper::toggle_hint_window
ToggleHintWindow ==
    /\ win # <<>>
    /\ win' = <<[win[1] EXCEPT !.visible = ~@]>>
    /\ restored' = FALSE
    /\ UNCHANGED <<aircraft, stateFiles, saved, defaultGeometry, createdGeometry>>

\* SystemWrapper::set_hint_window_visible
SetHintWindowVisible(b) ==
    /\ win # <<>>
    /\ win' = <<[win[1] EXCEPT !.visible = b]>>
    /\ restored' = FALSE
    /\ UNCHANGED <<aircraft, stateFiles, saved, defaultGeometry, createdGeometry>>

\* The user drags or resizes the window.
MoveWindow(g) ==
    /\ win # <<>>
    /\ win' = <<[win[1] EXCEPT !.geometry = g]>>
    /\ restored' = FALSE
    /\ UNCHANGED <<aircraft, stateFiles, saved, defaultGeometry, createdGeometry>>

\* The user or the simulator puts the window in another positioning mode.
SetPositioningMode(m) ==
    /\ win # <<>>
    /\ win' = <<[win[1] EXCEPT !.mode = m]>>
    /\ restored' = FALSE
    /\ UNCHANGED <<aircraft, stateFiles, saved, defaultGeometry, createdGeometry>>

\* disable() and XPLM_MSG_PLANE_UNLOADED: self.internals.take()
DropInternals ==
    /\ win # <<>>
    /\ win' = <<>>
    /\ restored' = FALSE
    /\ defaultGeometry' = 0
    /\ createdGeometry' = 0
    /\ UNCHANGED <<aircraft, stateFiles, saved>>

\* The plugin is not in use: its host has told it of no aircraft.
NoAircraft ==
    /\ aircraft = CHOOSE ac \in Aircraft : ac.icao = "B738"
    /\ aircraftLoaded = FALSE

\* Before the first session: no window, no state file.
NoWindow ==
    /\ win = <<>>
    /\ stateFiles = [id \in StateIds |-> <<>>]
    /\ saved = [id \in StateIds |-> <<>>]
    /\ restored = FALSE
    /\ defaultGeometry = 0
    /\ createdGeometry = 0
    /\ hadHintsDir = <<>>

\* ------------------------------------------------------- plugin lifecycle

\* find_path that takes the directory to be there.
FindPathAlways(dir) == TRUE

\* find_path: Some(path) exactly when <aircraft>/hints is a directory.
FindPath(dir) == dir

\* Hints::new(path) of the common crate on a directory listed as l: the
\* instance it replaces, if any, is gone with all its loaders.
HintsNew(l) ==
    /\ workers = EmptyBag
    /\ hints' = <<>>
    /\ idx' = 0
    /\ inputs' = Sort(l)
    /\ workers' = SetToBag({SpawnLoader(Sort(l))})
    /\ textures' = textures \ TexturesOf(hints)
    /\ interleaved' = FALSE
    /\ uiPc' = "idle"
    /\ UNCHANGED crate

\* `self.internals = Internals::new()` for the aircraft a: with a hints
\* directory (dir) the app, the window, the menu and the commands are
\* created; without one None is returned. Either way the Internals held
\* before are dropped.
InternalsNew(a, dir, l, g, v, rd) ==
    /\ hadHintsDir' = <<dir>>
    /\ IF FindPath(dir)
       THEN /\ HintsNew(l)
            /\ SystemWrapperNew(a, g, v, rd)
       ELSE /\ aircraft' = a
            /\ win' = <<>>
            /\ restored' = FALSE
            /\ defaultGeometry' = 0
            /\ createdGeometry' = 0
            /\ UNCHANGED <<stateFiles, saved>>
            /\ IF win # <<>> THEN DropHints ELSE UNCHANGED appVars

\* What the simulator may ask Internals::new to work on. No state file is
\* written in these runs, and reload() sorts whatever order read_dir gives.
CallInternalsNew(a) ==
    \E dir, v \in BOOLEAN : \E d \in SUBSET Files : \E g \in Geometries :
        InternalsNew(a, dir, Descending(d), g, v, TRUE)

\* self.internals.take()
TakeInternals ==
    IF win # <<>> THEN DropInternals /\ DropHints
    ELSE UNCHANGED <<winVars, appVars>>

\* enable() that does not look at aircraft_loaded.
EnableAlways ==
    /\ CallInternalsNew(aircraft)
    /\ UNCHANGED aircraftLoaded

\* Plugin::enable
Enable ==
    /\ IF aircraftLoaded
       THEN CallInternalsNew(aircraft)
       ELSE UNCHANGED <<winVars, appVars, hadHintsDir>>
    /\ UNCHANGED aircraftLoaded

\* Plugin::disable
Disable ==
    /\ TakeInternals
    /\ UNCHANGED plVars

\* receive_message(XPLM_MSG_LIVERY_LOADED): the simulator has loaded the
\* aircraft a, or another livery of it.
LiveryLoaded(a) ==
    /\ aircraftLoaded' = TRUE
    /\ CallInternalsNew(a)

\* receive_message(XPLM_MSG_PLANE_UNLOADED)
PlaneUnloaded ==
    /\ aircraftLoaded' = FALSE
    /\ TakeInternals
    /\ UNCHANGED hadHintsDir

\* ------------------------------------------------- thread_loader, alone

\* A client of thread_loader that sends what it likes when it likes, may
\* clone and drop its Sender and may drop its Receiver. f is Output.
MaxSends == 3
MaxSenders == 2
Output(i) == 10 * i

TheLoader == CHOOSE w \in BagToSet(workers) : TRUE

ClientSend(i) ==
    /\ workers # EmptyBag
    /\ TheLoader.tx > 0
    /\ Len(inputs) < MaxSends
    /\ workers' = Step(workers, TheLoader, ChannelSend(TheLoader, i))
    /\ inputs' = Append(inputs, i)
    /\ UNCHANGED <<applied, received>>

ClientCloneSender ==
    /\ workers # EmptyBag
    /\ TheLoader.tx > 0
    /\ TheLoader.tx < MaxSenders
    /\ workers' = Step(workers, TheLoader, [TheLoader EXCEPT !.tx = @ + 1])
    /\ UNCHANGED <<inputs, applied, received>>

ClientDropSender ==
    /\ workers # EmptyBag
    /\ TheLoader.tx > 0
    /\ workers' = Step(workers, TheLoader, [TheLoader EXCEPT !.tx = @ - 1])
    /\ UNCHANGED <<inputs, applied, received>>

\* Receiver::recv yields the oldest queued output.
ClientReceive ==
    /\ workers # EmptyBag
    /\ TheLoader.rx
    /\ TheLoader.outq # <<>>
    /\ received' = Append(received, Head(TheLoader.outq))
    /\ workers' = Step(workers, TheLoader, [TheLoader EXCEPT !.outq = Tail(@)])
    /\ UNCHANGED <<inputs, applied>>

\* Dropping the Receiver discards what is queued; of a thread that has
\* exited nothing is left.
ClientDropReceiver ==
    /\ workers # EmptyBag
    /\ TheLoader.rx
    /\ workers' = IF TheLoader.done THEN EmptyBag
                  ELSE Step(workers, TheLoader,
                            [TheLoader EXCEPT !.rx = FALSE, !.outq = <<>>])
    /\ UNCHANGED <<inputs, applied, received>>

\* The loader thread: one turn of its loop, or its exit.
LoaderTurn ==
    /\ workers # EmptyBag
    /\ CanRecv(TheLoader)
    /\ IF Recv(TheLoader).ok
       THEN /\ applied' = Append(applied, Recv(TheLoader).input)
            /\ workers' = Step(workers, TheLoader,
                               LoopBody(TheLoader, Output(Recv(TheLoader).input)))
       ELSE /\ applied' = applied
            /\ workers' = Exit(workers, TheLoader)
    /\ UNCHANGED <<inputs, received>>

\* ------------------------------------------------------------------ Init

\* Hints::new of the common crate has checked path.is_dir() and has run
\* reload(): the loader holds the sorted paths of the directory.
InitCommon ==
    /\ crate = "common"
    /\ \E d \in SUBSET Files : \E l \in Listings(d) : inputs = Sort(l)

\* Hints::new of the hints crate has parsed the configuration: the loader
\* holds the images in the order the file gives them.
ConfigLists == UNION {[1..n -> Files] : n \in 0..MaxConfig}
InitHints ==
    /\ crate = "hints"
    /\ inputs \in ConfigLists

InitApp ==
    /\ InitCommon \/ InitHints
    /\ hints = <<>>
    /\ idx = 0
    /\ workers = SetToBag({SpawnLoader(inputs)})
    /\ uiPc = "idle"
    /\ textures = {}
    /\ interleaved = FALSE
    /\ handled = <<>>
    /\ applied = <<>>
    /\ received = <<>>
    /\ NoWindow
    /\ NoAircraft

\* The app, driven by the plugin's commands and menu and by draw_ui.
Init == InitApp /\ event = NoEvent

UiCommand == \E ev \in {"next", "prev", "reload"} : HandleHintsEvent(ev)
Worker == \E w \in BagToSet(workers) : WorkerTurn(w)

Next ==
    \/ UiCommand /\ UNCHANGED <<evVars, tlVars, winVars, plVars>>
    \/ NextHint /\ UNCHANGED <<evVars, tlVars, winVars, plVars>>
    \/ PreviousHint /\ UNCHANGED <<evVars, tlVars, winVars, plVars>>
    \/ DrawUi /\ UNCHANGED <<evVars, tlVars, winVars, plVars>>
    \/ DropHints /\ UNCHANGED <<evVars, tlVars, winVars, plVars>>
    \/ Worker /\ UNCHANGED <<evVars, tlVars, winVars, plVars>>

Spec == Init /\ [][Next]_vars

\* The app, driven by one kind of Event through handle_event.
InitEv == InitApp /\ event \in Events

NextEv ==
    \/ HandleEvent /\ UNCHANGED <<tlVars, winVars, plVars>>
    \/ NextHint /\ UNCHANGED <<evVars, tlVars, winVars, plVars>>
    \/ PreviousHint /\ UNCHANGED <<evVars, tlVars, winVars, plVars>>
    \/ Worker /\ UNCHANGED <<evVars, tlVars, winVars, plVars>>

SpecEv == InitEv /\ [][NextEv]_vars

\* thread_loader alone, just returned to its client.
InitTL ==
    /\ crate = "loader"
    /\ \E so \in BOOLEAN : workers = SetToBag({ThreadLoader(so)})
    /\ inputs = <<>>
    /\ applied = <<>>
    /\ received = <<>>
    /\ hints = <<>>
    /\ idx = 0
    /\ uiPc = "idle"
    /\ textures = {}
    /\ interleaved = FALSE
    /\ event = NoEvent
    /\ handled = <<>>
    /\ NoWindow
    /\ NoAircraft

tlFrame == <<crate, hints, idx, uiPc, textures, interleaved, event, handled,
             winVars, plVars>>

NextTL ==
    \/ (\E i \in Files : ClientSend(i)) /\ UNCHANGED tlFrame
    \/ ClientCloneSender /\ UNCHANGED tlFrame
    \/ ClientDropSender /\ UNCHANGED tlFrame
    \/ ClientReceive /\ UNCHANGED tlFrame
    \/ ClientDropReceiver /\ UNCHANGED tlFrame
    \/ LoaderTurn /\ UNCHANGED tlFrame

\* The scheduler runs a thread that can run: weak fairness of the loader.
SpecTL == InitTL /\ [][NextTL]_vars /\ WF_vars(LoaderTurn /\ UNCHANGED tlFrame)

\* The plugin's window, driven by its commands and menu, by the user and
\* by the simulator's messages, from when a livery has been loaded.
InitWin ==
    /\ crate = "plugin"
    /\ hints = <<>>
    /\ idx = 0
    /\ uiPc = "idle"
    /\ inputs = <<>>
    /\ workers = EmptyBag
    /\ textures = {}
    /\ interleaved = FALSE
    /\ event = NoEvent
    /\ handled = <<>>
    /\ applied = <<>>
    /\ received = <<>>
    /\ NoWindow
    /\ aircraft \in Aircraft
    /\ aircraftLoaded = TRUE

winFrame == <<appVars, evVars, tlVars, plVars>>

NextWin ==
    \/ (\E a \in Aircraft : \E v, rd \in BOOLEAN :
            \E g \in Geometries : SystemWrapperNew(a, g, v, rd))
       /\ UNCHANGED winFrame
    \/ (\E wr \in {"ok", "fail", "cut"} : Save(wr)) /\ UNCHANGED winFrame
    \/ (\E rd \in BOOLEAN : Load(rd)) /\ UNCHANGED winFrame
    \/ Reset /\ UNCHANGED winFrame
    \/ ToggleHintWindow /\ UNCHANGED winFrame
    \/ (\E b \in BOOLEAN : SetHintWindowVisible(b)) /\ UNCHANGED winFrame
    \/ (\E g \in Geometries : MoveWindow(g)) /\ UNCHANGED winFrame
    \/ (\E m \in PositioningModes : SetPositioningMode(m)) /\ UNCHANGED winFrame
    \/ DropInternals /\ UNCHANGED winFrame

SpecWin == InitWin /\ [][NextWin]_vars

\* The plugin as its host drives it, from Plugin::start on, with the
\* loader threads of its Hints.
InitPlugin ==
    /\ crate = "common"
    /\ hints = <<>>
    /\ idx = 0
    /\ uiPc = "dropped"
    /\ inputs = <<>>
    /\ workers = EmptyBag
    /\ textures = {}
    /\ interleaved = FALSE
    /\ event = NoEvent
    /\ handled = <<>>
    /\ applied = <<>>
    /\ received = <<>>
    /\ NoWindow
    /\ aircraft \in Aircraft
    /\ aircraftLoaded = FALSE

NextPlugin ==
    \/ Enable /\ UNCHANGED <<evVars, tlVars>>
    \/ Disable /\ UNCHANGED <<evVars, tlVars>>
    \/ (\E a \in Aircraft : LiveryLoaded(a)) /\ UNCHANGED <<evVars, tlVars>>
    \/ PlaneUnloaded /\ UNCHANGED <<evVars, tlVars>>
    \/ Worker /\ UNCHANGED <<evVars, tlVars, winVars, plVars>>

SpecPlugin == InitPlugin /\ [][NextPlugin]_vars

\* ================================================================ claims

IsApp == crate \in {"common", "hints"}
Decodable(s) == SelectSeq(s, ImageOpen)
Ascending(s) == \A i, j \in 1..Len(s) : i < j => s[i] < s[j]
RECURSIVE Count(_, _)
Count(x, s) ==
    IF s = <<>> THEN 0
    ELSE (IF Head(s) = x THEN 1 ELSE 0) + Count(x, Tail(s))
\* How often x is queued at the loaders of the bag ws.
RECURSIVE Queued(_, _)
Queued(x, ws) ==
    IF ws = EmptyBag THEN 0
    ELSE LET w == CHOOSE v \in BagToSet(ws) : TRUE
         IN Count(x, w.inq) + Queued(x, ws (-) SetToBag({w}))

\* C1: at any time at most one loader thread can push into the hint list of
\* a Hints instance.
C1_SingleLoader == IsApp => BagCardinality(workers) <= 1

\* C2: once every loader has finished, the hint list holds exactly the
\* decodable files of the directory the last (re)load listed, in ascending
\* path order, also when that reload began while a load was running.
C2_ReloadResult ==
    (crate = "common" /\ uiPc = "idle" /\ workers = EmptyBag)
        => Ascending(inputs) /\ FilesOf(hints) = Decodable(inputs)

\* C3: during a load that began with no other loader alive, the hint list
\* is the decodable part of the inputs consumed so far, in the order they
\* were sent (a prefix of the decodable inputs), and it is all of them once
\* the loader has finished.
C3_PrefixOfInputs ==
    (IsApp /\ ~interleaved) =>
        /\ BagCardinality(workers) <= 1
        /\ IsPrefix(FilesOf(hints), Decodable(inputs))
        /\ \A w \in BagToSet(workers) :
              /\ Len(w.inq) <= Len(inputs)
              /\ FilesOf(hints) =
                    Decodable(SubSeq(inputs, 1, Len(inputs) - Len(w.inq)))
        /\ (workers = EmptyBag => FilesOf(hints) = Decodable(inputs))

\* C3 witness: the hints crate has loaded two images in configuration
\* order, which is not the sorted order.
C3_Witness ==
    /\ crate = "hints" /\ workers = EmptyBag
    /\ inputs = <<3, 1>> /\ FilesOf(hints) = <<3, 1>>

LoaderExited == IF workers = EmptyBag THEN TRUE ELSE TheLoader.done
SendersDropped == IF workers = EmptyBag THEN TRUE ELSE TheLoader.tx = 0

\* C4: the loader thread exits only when every Sender is dropped and f has
\* been applied to every input sent; and once every Sender is dropped it
\* does exit.
C4_DropStopsLoader ==
    /\ [](LoaderExited => SendersDropped /\ applied = inputs)
    /\ (SendersDropped ~> LoaderExited)

\* C4 witness: the loader has exited after f was applied to two inputs.
C4_Witness == crate = "loader" /\ LoaderExited /\ Len(applied) >= 2

Outputs(s) == [i \in 1..Len(s) |-> Output(s[i])]

\* C5: f is applied once to each input, in order; with send_output the
\* Receiver yields the outputs of the inputs in input order, none missing
\* while it is held; without send_output nothing is ever sent; a dropped
\* Receiver does not keep the loader from the later inputs.
C5_OutputContract ==
    crate = "loader" =>
        /\ IsPrefix(received, Outputs(applied))
        /\ IF workers = EmptyBag THEN applied = inputs
           ELSE /\ applied \o TheLoader.inq = inputs
                /\ (TheLoader.done => applied = inputs)
                /\ (~TheLoader.sendOut =>
                       TheLoader.outq = <<>> /\ received = <<>>)
                /\ ((TheLoader.sendOut /\ TheLoader.rx) =>
                       received \o TheLoader.outq = Outputs(applied))

\* C5 witness: with send_output the client has received the outputs of two
\* inputs and the loader has exited.
C5_Witness ==
    /\ crate = "loader" /\ workers # EmptyBag
    /\ TheLoader.sendOut /\ TheLoader.done
    /\ Len(received) >= 2 /\ received = Outputs(inputs)

\* C6: no undecodable file is in the hint list, and in a load that began
\* with no other loader alive every decodable file sent is either in the
\* list or still queued: a decoding failure loses nothing else.
C6_LogAndSkip ==
    IsApp =>
        /\ \A i \in 1..Len(hints) : ImageOpen(hints[i].file)
        /\ ~interleaved =>
              \A f \in Files :
                ImageOpen(f) =>
                    Count(f, FilesOf(hints)) + Queued(f, workers) = Count(f, inputs)

\* C6 witness: the directory held an undecodable file between two images
\* and both images were loaded.
C6_Witness ==
    /\ crate = "common" /\ workers = EmptyBag
    /\ inputs = <<1, 2, 3>> /\ FilesOf(hints) = <<1, 3>>

\* The step that completes a NextHint (PreviousHint) on a non-empty list.
C7_NextStep ==
    \/ crate = "common" /\ uiPc = "next" /\ uiPc' = "idle"
    \/ crate = "hints" /\ hints # <<>> /\ HintsCrateEvent("next")
C7_PrevStep ==
    \/ crate = "common" /\ uiPc = "prev" /\ uiPc' = "idle"
    \/ crate = "hints" /\ hints # <<>> /\ HintsCrateEvent("prev")

\* C7: with n >= 1 hints in the list, NextHint moves the index to
\* (idx + 1) mod n, from the last hint to the first, and PreviousHint to
\* (idx + n - 1) mod n, from the first hint to the last; neither adds,
\* removes or reorders a hint.
C7_IndexCycles ==
    [][LET n == Len(hints)
       IN /\ C7_NextStep =>
               /\ n >= 1
               /\ idx' = (idx + 1) % n
               /\ idx' = IF idx = n - 1 THEN 0 ELSE idx + 1
               /\ FilesOf(hints') = FilesOf(hints)
          /\ C7_PrevStep =>
               /\ n >= 1
               /\ idx' = (idx + n - 1) % n
               /\ idx' = IF idx = 0 THEN n - 1 ELSE idx - 1
               /\ FilesOf(hints') = FilesOf(hints)]_vars

\* C7 witness: the index is on the last of at least two hints.
C7_Witness ==
    /\ crate = "common" /\ uiPc = "idle"
    /\ Len(hints) >= 2 /\ idx = Len(hints) - 1

\* The mapping as the specification words it.
C8_Mapping(c, e) ==
    CASE e.type = "Scroll" /\ e.y > 0 -> "next"
      [] e.type = "Scroll" /\ e.y < 0 -> "prev"
      [] e.type = "Key" /\ e.action = "Press" /\ e.key = "DownArrow" -> "next"
      [] e.type = "Key" /\ e.action = "Press" /\ e.key = "UpArrow" -> "prev"
      [] e.type = "Key" /\ e.action = "Press" /\ e.key = "R" /\ c = "common" -> "reload"
      [] OTHER -> "none"

\* C8: scroll up/down and the pressed arrow keys map to NextHint and
\* PreviousHint, a pressed R to Reload in the common crate, everything else
\* to nothing; handle_event, when it returns, returns true exactly for a
\* mapped event, and it starts the handler of the mapped event and no other.
C8_InputMapping ==
    /\ HintsEventFrom(crate, event) = C8_Mapping(crate, event)
    /\ handled # <<>> => handled[1] = (C8_Mapping(crate, event) # "none")
    /\ uiPc \in {"next", "prev"} => uiPc = C8_Mapping(crate, event)
    /\ uiPc = "panic" => C8_Mapping(crate, event) = "reload"
    /\ (C8_Mapping(crate, event) \in {"none", "reload"} \/ handled = <<>>) => idx = 0

\* C8 witness: handle_event returned true for a scroll although no hint is
\* loaded.
C8_Witness ==
    /\ handled = <<TRUE>> /\ event.type = "Scroll" /\ event.y > 0
    /\ hints = <<>> /\ workers = EmptyBag

\* C9: a hint enters the list without a texture; draw_ui on a hint that has
\* a texture keeps it and creates none; on a hint without one it either
\* creates and stores a new texture or, on failure, stores nothing and
\* leaves everything as it was; a stored handle is never replaced by another
\* one.
C9_LazyTexture ==
    [][/\ Len(hints') > Len(hints) => hints'[Len(hints')].tex = 0
       /\ \A i \in 1..Len(hints) :
             (i <= Len(hints') /\ hints[i].tex # 0)
                 => hints'[i].tex \in {hints[i].tex, 0}
       /\ (DrawUi /\ idx + 1 <= Len(hints)) =>
             LET t == hints[idx + 1].tex
                 t2 == hints'[idx + 1].tex
             IN /\ FilesOf(hints') = FilesOf(hints)
                /\ \A i \in 1..Len(hints) : i # idx + 1 => hints'[i] = hints[i]
                /\ t # 0 => t2 = t /\ textures' = textures
                /\ t = 0 =>
                     \/ t2 = 0 /\ textures' = textures
                     \/ t2 # 0 /\ t2 \notin textures /\ textures' = textures \cup {t2}
      ]_vars

\* C9 witness: the current hint holds a texture that a draw created.
C9_Witness ==
    /\ IsApp /\ uiPc = "idle" /\ idx + 1 <= Len(hints)
    /\ hints[idx + 1].tex # 0 /\ hints[idx + 1].tex \in textures

\* The window a load makes of the window that was saved: the same place and
\* visibility, and the mode if a State can record it, else Free.
C10_Restores(w) ==
    [w EXCEPT !.mode = IF @ \in Modes THEN @ ELSE "Free"]

\* C10, for the modes a State records: for the same current aircraft, once a save has written
\* the state file, a load that reads it -- after moves, toggles, resets, or
\* in a later session -- leaves the window with exactly the geometry and
\* the visibility it had at the time of that save, and with the positioning
\* mode it had then if that was Free, PopOut or VR; a window saved in any
\* other positioning mode is restored as Free.
C10_RoundTrip ==
    (win # <<>> /\ restored) =>
        /\ saved[AircraftId(aircraft)] # <<>>
        /\ win[1] = C10_Restores(saved[AircraftId(aircraft)][1])

\* A window saved popped out and hidden away from its first place, and
\* restored so by a load.
C10_Witness ==
    /\ win # <<>>
    /\ restored
    /\ saved[AircraftId(aircraft)] = win
    /\ win[1].mode = "PopOut"
    /\ win[1].geometry # defaultGeometry
    /\ ~win[1].visible

\* C10 as stated: a load restores exactly the mode, the geometry and the
\* visibility of the time of the save, whatever the positioning mode was.
C10_RoundTripEveryMode ==
    (win # <<>> /\ restored) =>
        /\ saved[AircraftId(aircraft)] # <<>>
        /\ win[1] = saved[AircraftId(aircraft)][1]


\* A NextHint or PreviousHint event arrives: the first step of
\* handle_hints_event in either crate.
C15_CycleEvent == \E ev \in {"next", "prev"} : HaveHints(ev) \/ HintsCrateEvent(ev)

\* C15: NextHint and PreviousHint on an empty hint list change neither the
\* index nor the list nor any texture and end the call; and whenever the
\* UI thread is about to take the index modulo the length of the list, the
\* list is not empty, whatever the loader threads did in between.
C15_EmptyListNoOp ==
    /\ []((IsApp /\ uiPc \in {"next", "prev"}) => Len(hints) >= 1)
    /\ [][(hints = <<>> /\ C15_CycleEvent) =>
            /\ idx' = idx
            /\ hints' = hints
            /\ textures' = textures
            /\ uiPc' = "idle"]_vars

\* C15 witness: in the common crate have_hints has released the lock, the
\* index is not yet updated, the list holds one hint and a loader lives.
C15_Witness ==
    /\ crate = "common" /\ uiPc \in {"next", "prev"}
    /\ Len(hints) = 1 /\ workers # EmptyBag

\* C16: the current index is 0 or less than the number of hints, in every
\* state; and a step that empties the list leaves the index 0.
C16_IndexInRange ==
    /\ [](IsApp => (idx = 0 \/ idx < Len(hints)))
    /\ [][(hints # <<>> /\ hints' = <<>>) => idx' = 0]_vars

\* C16 witness: after a reload that began during a load, the index has
\* moved off 0 again.
C16_Witness == crate = "common" /\ interleaved /\ idx >= 1 /\ uiPc = "idle"

\* C17: at most one hint of the list holds a texture, it is the hint at the
\* current index, and the renderer holds no texture but that one.
C17_OneTexture ==
    IsApp =>
        /\ \A i \in 1..Len(hints) : hints[i].tex # 0 => i = idx + 1
        /\ textures = TexturesOf(hints)

\* C17 witness: the second hint of the list is current and holds the only
\* texture.
C17_Witness ==
    /\ IsApp /\ Len(hints) >= 2 /\ idx = 1
    /\ hints[2].tex # 0 /\ textures = {hints[2].tex}

\* C18: a loader thread never deallocates a texture: no step of a loader
\* changes the set of textures the renderer holds.
C18_WorkerFreesNothing == [][Worker => textures' = textures]_vars

\* C19: a failure to list the directory during a reload does not abort the
\* program: the UI thread never panics.
C19_ListFailureSkipped == uiPc # "panic"

\* C11: the state file is named after the ICAO code of the current
\* aircraft, or after its file name without the extension when the code is
\* empty; a step changes no state file but that of the aircraft current at
\* the step; and what a load gives the window is what the file of the
\* aircraft current at the load holds.
C11_KeyedByAircraft ==
    /\ [](\A ac \in Aircraft :
            /\ ac.icao = "B738" => AircraftId(ac) = <<"B738">>
            /\ ac.icao = "" => AircraftId(ac) = <<"Cessna_172SP">>)
    /\ [][\A id \in StateIds :
            id # AircraftId(aircraft) => stateFiles'[id] = stateFiles[id]]_vars
    /\ [][(restored' /\ (~restored \/ win' # win)) =>
            /\ stateFiles'[AircraftId(aircraft')] # <<>>
            /\ win'[1] = ApplyState(stateFiles'[AircraftId(aircraft')][1])]_vars

\* C11 witness: the aircraft without an ICAO code has its window restored
\* from the file named after its file name, while the file of another id
\* holds another state.
C11_Witness ==
    /\ win # <<>> /\ restored /\ aircraft.icao = ""
    /\ stateFiles[<<"Cessna_172SP">>] = <<StateFrom(win[1])>>
    /\ stateFiles[<<"B738">>] # <<>>
    /\ stateFiles[<<"B738">>] # stateFiles[<<"Cessna_172SP">>]

\* C12: a reset leaves the window in mode Free, visible, and with the
\* geometry it was created with, before any saved state was applied.
C12_ResetDefaults ==
    [][Reset =>
         win' = <<[mode |-> "Free", geometry |-> createdGeometry,
                   visible |-> TRUE]>>]_vars

\* C12 witness: a window created in one place was put elsewhere, in VR and
\* hidden, by the saved state, and is now free, visible and where it was
\* created.
C12_Witness ==
    /\ win # <<>> /\ ~restored
    /\ stateFiles[AircraftId(aircraft)] # <<>>
    /\ stateFiles[AircraftId(aircraft)][1].mode = "VR"
    /\ stateFiles[AircraftId(aircraft)][1].position # createdGeometry
    /\ ~stateFiles[AircraftId(aircraft)][1].visible
    /\ win[1] = [mode |-> "Free", geometry |-> createdGeometry, visible |-> TRUE]

\* The plugin holds Internals: the window and the Hints app exist.
C13_HasInternals == win # <<>>

\* C13: the plugin holds Internals only if aircraft_loaded is true, and
\* none before the first Internals::new; the window and the Hints app are
\* there together or not at all; enable without a loaded aircraft creates
\* nothing; disable and PLANE_UNLOADED leave the plugin without Internals.
C13_Lifecycle ==
    /\ [](C13_HasInternals => aircraftLoaded)
    /\ [](hadHintsDir = <<>> => ~C13_HasInternals)
    /\ [](C13_HasInternals <=> uiPc = "idle")
    /\ [][(~aircraftLoaded /\ Enable) => UNCHANGED <<win, workers, uiPc>>]_vars
    /\ [][(Disable \/ PlaneUnloaded) => ~C13_HasInternals']_vars

\* C13 witness: an aircraft is loaded and the plugin, disabled after it
\* held Internals, holds none.
C13_Witness ==
    /\ aircraftLoaded /\ win = <<>> /\ hadHintsDir = <<TRUE>>
    /\ uiPc = "dropped" /\ workers # EmptyBag

\* C14: when the aircraft had no hints directory at the last Internals::new,
\* the plugin holds no window and no Hints app; no step that ends in that
\* state, the call that found no directory among them, starts a loader
\* thread; and a window appears only in a step that finds a hints directory
\* for a loaded aircraft (an enable or a LIVERY_LOADED, by C13).
C14_NoHintsDirectory ==
    /\ [](hadHintsDir = <<FALSE>> => (win = <<>> /\ uiPc # "idle"))
    /\ [][hadHintsDir' = <<FALSE>> =>
            /\ BagCardinality(workers') <= BagCardinality(workers)
            /\ \A w \in BagToSet(workers') :
                  \E u \in BagToSet(workers) : Len(w.inq) <= Len(u.inq)]_vars
    /\ [][(win = <<>> /\ win' # <<>>) =>
            (hadHintsDir' = <<TRUE>> /\ aircraftLoaded')]_vars

\* C14 witness: a livery was loaded for an aircraft without a hints
\* directory, after a session that had one: nothing is held and no loader
\* runs.
C14_Witness ==
    /\ aircraftLoaded /\ hadHintsDir = <<FALSE>> /\ win = <<>>
    /\ workers = EmptyBag /\ inputs # <<>>

=============================================================================
